---- MODULE Spec2Model ----
(***************************************************************************)
(* Model of smart-contract-verifier/src/solidity/multi_part.rs: the        *)
(* candidate builder (From<MultiFileContent> for Vec<CompilerInput>), the  *)
(* metadata-variant generator (settings_metadata) and the orchestrator     *)
(* (verify), split into one action per suspension point (.await).          *)
(***************************************************************************)
EXTENDS Integers, Sequences, FiniteSets, TLC

VARIABLES
    request,          \* VerificationRequest handed to multi_part::verify
    middleware,       \* client.middleware(): TRUE iff a middleware is registered
    pc,               \* position of verify: start, await_code, await_verify, await_hook, done
    code_calls,       \* addresses handed to the address-code capability (eth_getCode)
    code_answers,     \* what the address-code capability answered, in call order
    deployed_bytecode,\* Option: the decoded deployed bytecode
    verifier,         \* Option: the ContractVerifier built at lines 83-88
    compiler_inputs,  \* candidates not yet taken by the outer for loop
    compiler_input,   \* Option: the outer loop variable (mutated in place per variant)
    metadatas,        \* variants not yet taken by the inner for loop
    calls,            \* inputs handed to verifier.verify, in call order
    responses,        \* results returned by verifier.verify, in call order
    hook_calls,       \* Success values handed to middleware.call
    hook_done,        \* outcomes of the completed middleware calls
    result,           \* value verify returned (or the panic that ended it)
    raw,              \* the handler's deserialized VerificationRequest
    hpc,              \* position of the HTTP handler: none, parse, verifying,
                      \* await_db_new, await_db_add, responded, aborted
    response,         \* what the HTTP handler returned
    db_records,       \* Verified_Contract_Result values handed to the database
    dropped,          \* answers that arrived after verify's future was dropped
    first_run,        \* what an earlier run of verify on this request saw and returned
    other             \* the state of a second, suspended run of verify

\* what is outside one run of multi_part::verify
outer == <<raw, hpc, response, db_records, dropped, first_run, other>>

vars == <<request, middleware, pc, code_calls, code_answers,
          deployed_bytecode, verifier, compiler_inputs, compiler_input,
          metadatas, calls, responses, hook_calls, hook_done, result, outer>>

----------------------------------------------------------------------------
(* Bounds *)

\* largest number of source files in one request
MaxSources == 2

----------------------------------------------------------------------------
(* Option<T> *)

None == [some |-> FALSE]
Some(x) == [some |-> TRUE, val |-> x]

----------------------------------------------------------------------------
(* Input domains *)

\* a PathBuf, as stem and extension
Path(stem, ext) == [stem |-> stem, ext |-> ext]

PathUniverse ==
    {Path("a", "sol"), Path("b", "yul"), Path("c", "txt"), Path("d", "yul")}

Contents == {"pragma", "object"}

\* BTreeMap<PathBuf, String> with at most MaxSources keys
SourceMaps ==
    UNION {[S -> Contents] :
             S \in {T \in SUBSET PathUniverse : Cardinality(T) <= MaxSources}}

\* semver versions <<major, minor, patch>> of the compiler
Versions ==
    {<<0, 5, 17>>, <<0, 6, 0>>, <<0, 7, 6>>, <<0, 8, 15>>, <<1, 5, 0>>}

\* the compiler versions the toolchain catalog (client.compilers()) holds
Catalog == {<<0, 5, 17>>, <<0, 6, 0>>, <<0, 8, 15>>, <<1, 5, 0>>}

EvmVersions == {None, Some("london")}
OptimizationRuns == {None, Some(200)}
\* the empty BTreeMap is <<>>, the function with empty domain
LibraryMaps == {None, Some([n \in {"Lib"} |-> "0xAAAA"])}
\* a String, as its characters
Addresses == {<<"0", "x", "A", "b">>}
CreationBytecodes == {None}

MultiFileContents ==
    [sources : SourceMaps, evm_version : EvmVersions,
     optimization_runs : OptimizationRuns, contract_libraries : LibraryMaps]

VerificationRequests ==
    [contract_address : Addresses, creation_bytecode : CreationBytecodes,
     compiler_version : Versions, content : MultiFileContents]

----------------------------------------------------------------------------
(* Results *)

Ok(v) == [tag |-> "Ok", value |-> v]
Err(k, p) == [tag |-> "Err", kind |-> k, payload |-> p]
Panic(m) == [tag |-> "Panic", msg |-> m]
Pending == [tag |-> "Pending"]

\* no other run of verify
NoRun == [none |-> TRUE]

\* no HTTP request: multi_part::verify called on its own
NoRaw == [handler |-> "none"]

\* Error::NoMatchingContracts carries no data
NoMatchingContracts == Err("NoMatchingContracts", "")

\* the other variants of verifier::Error, each carrying data
HardErrorKinds ==
    {"Compilation", "CompilerVersionMismatch", "Initialization",
     "VersionNotFound", "Internal"}
ErrorPayloads == {"e1", "e2"}
HardErrors == {Err(k, p) : k \in HardErrorKinds, p \in ErrorPayloads}

\* what the matcher reports in a Success besides the input it compiled
ContractNames == {"A", "B"}
Success(input, name) == [compiler_input |-> input, contract_name |-> name]

----------------------------------------------------------------------------
(* Metadata-variant generator *)

\* semver: VersionReq::parse("<0.6.0").matches(v), v without pre-release tag
matches_less(v, bound) ==
    \/ v[1] < bound[1]
    \/ v[1] = bound[1] /\ v[2] < bound[2]
    \/ v[1] = bound[1] /\ v[2] = bound[2] /\ v[3] < bound[3]

\* BYTECODE_HASHES with the first two options swapped
BYTECODE_HASHES_swapped == <<"None", "Ipfs", "Bzzr1">>

\* const BYTECODE_HASHES: [BytecodeHash; 3]
BYTECODE_HASHES == <<"Ipfs", "None", "Bzzr1">>

\* SettingsMetadata::from(hash)
SettingsMetadataFrom(hash) ==
    [use_literal_content |-> None, bytecode_hash |-> Some(hash)]

\* settings_metadata with the threshold written as <0.5.0
settings_metadata_050(compiler_version) ==
    IF matches_less(compiler_version, <<0, 5, 0>>)
    THEN <<None>>
    ELSE [i \in 1..Len(BYTECODE_HASHES) |->
            Some(SettingsMetadataFrom(BYTECODE_HASHES[i]))]

\* fn settings_metadata(compiler_version) -> Vec<Option<SettingsMetadata>>
settings_metadata(compiler_version) ==
    IF matches_less(compiler_version, <<0, 6, 0>>)
    THEN <<None>>
    ELSE [i \in 1..Len(BYTECODE_HASHES) |->
            Some(SettingsMetadataFrom(BYTECODE_HASHES[i]))]

----------------------------------------------------------------------------
(* Candidate builder *)

\* Settings::default(), with the output selection kept as one opaque value
DefaultSettings ==
    [optimizer |-> [enabled |-> None, runs |-> None],
     libraries |-> <<>>,
     evm_version |-> None,
     metadata |-> None,
     output_selection |-> "default_output_selection"]

\* the part of a BTreeMap whose keys satisfy a predicate
Restrict(f, S) == [p \in S |-> f[p]]

IsYul(path) == path.ext = "yul"

\* with_sources that puts every file into one Solidity input
with_sources_single(sources) ==
    IF DOMAIN sources # {}
    THEN <<[language |-> "Solidity", sources |-> sources,
            settings |-> DefaultSettings]>>
    ELSE <<>>

\* CompilerInput::with_sources: one input per non-empty language partition,
\* Solidity first; every file whose extension is not yul counts as Solidity
with_sources(sources) ==
    LET yul_sources == {p \in DOMAIN sources : IsYul(p)}
        solidity_sources == (DOMAIN sources) \ yul_sources
        input(lang, S) ==
            [language |-> lang, sources |-> Restrict(sources, S),
             settings |-> DefaultSettings]
    IN  (IF solidity_sources # {}
         THEN <<input("Solidity", solidity_sources)>> ELSE <<>>)
        \o
        (IF yul_sources # {}
         THEN <<input("Yul", yul_sources)>> ELSE <<>>)

\* content_settings that attaches the libraries to one file only
content_settings_one_file(content) ==
    [DefaultSettings EXCEPT
        !.optimizer = [enabled |-> Some(content.optimization_runs.some),
                       runs |-> content.optimization_runs],
        !.libraries =
            IF content.contract_libraries.some /\ DOMAIN content.sources # {}
            THEN LET first == CHOOSE p \in DOMAIN content.sources : TRUE
                 IN  [filename \in {first} |-> content.contract_libraries.val]
            ELSE DefaultSettings.libraries,
        !.evm_version = content.evm_version]

\* content_settings that always enables the optimizer
content_settings_enabled(content) ==
    [DefaultSettings EXCEPT
        !.optimizer = [enabled |-> Some(TRUE),
                       runs |-> content.optimization_runs],
        !.libraries =
            IF content.contract_libraries.some
            THEN [filename \in DOMAIN content.sources |->
                    content.contract_libraries.val]
            ELSE DefaultSettings.libraries,
        !.evm_version = content.evm_version]

\* lines 37-50: the settings shared by every candidate of one request
content_settings(content) ==
    [DefaultSettings EXCEPT
        !.optimizer = [enabled |-> Some(content.optimization_runs.some),
                       runs |-> content.optimization_runs],
        !.libraries =
            IF content.contract_libraries.some
            THEN [filename \in DOMAIN content.sources |->
                    content.contract_libraries.val]
            ELSE DefaultSettings.libraries,
        !.evm_version = content.evm_version]

\* from that gives each candidate a library table for its own files only
from_own_libraries(content) ==
    LET settings == content_settings(content)
        inputs == with_sources(content.sources)
        own(input) ==
            [settings EXCEPT
                !.libraries = Restrict(settings.libraries,
                                       DOMAIN settings.libraries
                                           \cap DOMAIN input.sources)]
    IN  [i \in 1..Len(inputs) |-> [inputs[i] EXCEPT !.settings = own(inputs[i])]]

\* from that falls back to one Solidity candidate without files when the
\* split yields none
from_nonempty(content) ==
    LET settings == content_settings(content)
        inputs == with_sources(content.sources)
    IN  IF inputs = <<>>
        THEN <<[language |-> "Solidity", sources |-> content.sources,
                settings |-> settings]>>
        ELSE [i \in 1..Len(inputs) |->
                [inputs[i] EXCEPT !.settings = settings]]

\* from whose candidate order differs from one run to the next, as with
\* candidates collected from a map without a fixed iteration order
from_unstable(content) ==
    LET settings == content_settings(content)
        inputs == with_sources(content.sources)
        cs == [i \in 1..Len(inputs) |-> [inputs[i] EXCEPT !.settings = settings]]
    IN  IF first_run = NoRun
        THEN cs
        ELSE [i \in 1..Len(cs) |-> cs[Len(cs) + 1 - i]]

\* impl From<MultiFileContent> for Vec<CompilerInput>
from(content) ==
    LET settings == content_settings(content)
        inputs == with_sources(content.sources)
    IN  [i \in 1..Len(inputs) |-> [inputs[i] EXCEPT !.settings = settings]]

----------------------------------------------------------------------------
(* Collaborators' answers *)

\* what rpc.eth_get_code can answer: a transport error, no result, an empty
\* string, a hex string, or a string that is not hex
CodeAnswers ==
    {[tag |-> "Err"], Ok(None), Ok(Some("")), Ok(Some("0x6001")),
     Ok(Some("zz"))}

\* DisplayBytes::from_str: hex decoding after stripping 0x
DisplayBytes_from_str(s) ==
    CASE s = "" -> Ok(<<>>)
      [] s = "0x6001" -> Ok(<<96, 1>>)
      [] OTHER -> [tag |-> "Err"]

\* ContractVerifier::new either builds the verifier or fails to set it up
NewAnswers == {Ok("verifier"), Err("Initialization", "e1")}

\* what verifier.verify(&compiler_input) can answer for a compiler version:
\* without the compiler in the catalog nothing can be compiled
VerifyAnswersFor(compiler_version, input) ==
    IF compiler_version \in Catalog
    THEN {Ok(Success(input, n)) : n \in ContractNames}
         \cup {NoMatchingContracts} \cup HardErrors
    ELSE {Err("VersionNotFound", p) : p \in ErrorPayloads}

\* what verifier.verify(&compiler_input) can answer in this run
VerifyAnswers(input) == VerifyAnswersFor(request.compiler_version, input)

\* a deterministic collaborator: an input it has answered before gets the
\* same answer again, any other input any answer it can give
Replayed(inputs_log, answers_log, input, fresh) ==
    LET known == {i \in 1..Len(answers_log) : inputs_log[i] = input}
    IN  IF known # {}
        THEN {answers_log[CHOOSE i \in known : TRUE]}
        ELSE fresh

\* rpc.eth_get_code for an address, given what an earlier run saw
code_answers_now(address) ==
    IF first_run = NoRun THEN CodeAnswers
    ELSE Replayed(first_run.code_calls, first_run.code_answers, address,
                  CodeAnswers)

\* ContractVerifier::new for its arguments, given what an earlier run saw
new_answers_now(args) ==
    IF first_run = NoRun THEN NewAnswers
    ELSE Replayed(first_run.new_calls, first_run.new_answers, args,
                  NewAnswers)

\* verifier.verify for an input, given what an earlier run saw
verify_answers_now(input) ==
    IF first_run = NoRun THEN VerifyAnswers(input)
    ELSE Replayed(first_run.calls, first_run.responses, input,
                  VerifyAnswers(input))

\* how a middleware call can end; it returns () either way
HookOutcomes == {"recorded", "failed"}

\* middleware.call for a Success, given what an earlier run saw
hook_outcomes_now(success) ==
    IF first_run = NoRun THEN HookOutcomes
    ELSE Replayed(first_run.hook_calls, first_run.hook_done, success,
                  HookOutcomes)

----------------------------------------------------------------------------
(* Orchestrator: multi_part::verify *)

RECURSIVE next_attempt_once(_, _, _, _)
\* next_attempt with the variant list computed before the outer loop and
\* consumed by the first candidate only
next_attempt_once(compiler_version, cur, metas, rest) ==
    IF metas # <<>>
    THEN [found |-> TRUE,
          compiler_input |->
              Some([cur.val EXCEPT !.settings.metadata = Head(metas)]),
          metadatas |-> Tail(metas),
          compiler_inputs |-> rest]
    ELSE IF rest # <<>>
    THEN next_attempt_once(compiler_version, Some(Head(rest)),
                           IF cur.some THEN <<>>
                           ELSE settings_metadata(compiler_version),
                           Tail(rest))
    ELSE [found |-> FALSE, compiler_input |-> None, metadatas |-> <<>>,
          compiler_inputs |-> <<>>]

RECURSIVE next_attempt_rev(_, _, _, _)
\* next_attempt taking the variants from the back of the list
next_attempt_rev(compiler_version, cur, metas, rest) ==
    IF metas # <<>>
    THEN [found |-> TRUE,
          compiler_input |->
              Some([cur.val EXCEPT !.settings.metadata = metas[Len(metas)]]),
          metadatas |-> SubSeq(metas, 1, Len(metas) - 1),
          compiler_inputs |-> rest]
    ELSE IF rest # <<>>
    THEN next_attempt_rev(compiler_version, Some(Head(rest)),
                          settings_metadata(compiler_version), Tail(rest))
    ELSE [found |-> FALSE, compiler_input |-> None, metadatas |-> <<>>,
          compiler_inputs |-> <<>>]

RECURSIVE next_attempt_sticky(_, _, _, _)
\* next_attempt that sets the metadata only while the input has none, so
\* the first variant of a candidate sticks for its later attempts
next_attempt_sticky(compiler_version, cur, metas, rest) ==
    IF metas # <<>>
    THEN [found |-> TRUE,
          compiler_input |->
              IF cur.val.settings.metadata.some
              THEN cur
              ELSE Some([cur.val EXCEPT !.settings.metadata = Head(metas)]),
          metadatas |-> Tail(metas),
          compiler_inputs |-> rest]
    ELSE IF rest # <<>>
    THEN next_attempt_sticky(compiler_version, Some(Head(rest)),
                             settings_metadata(compiler_version), Tail(rest))
    ELSE [found |-> FALSE, compiler_input |-> None, metadatas |-> <<>>,
          compiler_inputs |-> <<>>]

RECURSIVE next_attempt(_, _, _, _)
\* lines 95-97: advance the two nested for loops to the next iteration of
\* the inner body.  cur is the outer loop variable (None before the first
\* outer iteration), metas what the inner iterator still holds, rest what
\* the outer iterator still holds.
next_attempt(compiler_version, cur, metas, rest) ==
    IF metas # <<>>
    THEN [found |-> TRUE,
          compiler_input |->
              Some([cur.val EXCEPT !.settings.metadata = Head(metas)]),
          metadatas |-> Tail(metas),
          compiler_inputs |-> rest]
    ELSE IF rest # <<>>
    THEN next_attempt(compiler_version, Some(Head(rest)),
                      settings_metadata(compiler_version), Tail(rest))
    ELSE [found |-> FALSE, compiler_input |-> None, metadatas |-> <<>>,
          compiler_inputs |-> <<>>]

\* search_step that reports the last attempted candidate as verified when
\* the loops run out
search_step_partial(cur, metas, rest) ==
    LET n == next_attempt(request.compiler_version, cur, metas, rest)
    IN  /\ compiler_input' = n.compiler_input
        /\ metadatas' = n.metadatas
        /\ compiler_inputs' = n.compiler_inputs
        /\ IF n.found
           THEN /\ calls' = Append(calls, n.compiler_input.val)
                /\ pc' = "await_verify"
                /\ result' = result
           ELSE /\ calls' = calls
                /\ pc' = "done"
                /\ result' = IF cur.some THEN Ok(Success(cur.val, "A"))
                             ELSE NoMatchingContracts

\* lines 95-98 and 116: issue the next verifier.verify call, or leave the
\* loops and return Err(NoMatchingContracts)
search_step(cur, metas, rest) ==
    LET n == next_attempt(request.compiler_version, cur, metas, rest)
    IN  /\ compiler_input' = n.compiler_input
        /\ metadatas' = n.metadatas
        /\ compiler_inputs' = n.compiler_inputs
        /\ IF n.found
           THEN /\ calls' = Append(calls, n.compiler_input.val)
                /\ pc' = "await_verify"
                /\ result' = result
           ELSE /\ calls' = calls
                /\ pc' = "done"
                /\ result' = NoMatchingContracts

\* ends verify with the value r
finish(r) ==
    /\ pc' = "done"
    /\ result' = r

\* line 79 up to the await: get_Code(request.contract_address.as_str())
verify_start ==
    /\ pc = "start"
    /\ code_calls' = Append(code_calls, request.contract_address)
    /\ pc' = "await_code"
    /\ UNCHANGED outer
    /\ UNCHANGED <<request, middleware, code_answers, deployed_bytecode,
                   verifier, compiler_inputs, compiler_input, metadatas,
                   calls, responses, hook_calls, hook_done, result>>

\* lines 83-88: the arguments of ContractVerifier::new
new_args(bytes) ==
    [compiler_version |-> request.compiler_version,
     creation_bytecode |-> request.creation_bytecode,
     deployed_bytecode |-> bytes]

\* lines 65-74 and 79-98: get_Code answers; the two expects, the hex
\* decoding, ContractVerifier::new, the candidate list and the first attempt
get_Code_return(answer) ==
    /\ pc = "await_code"
    /\ code_answers' = Append(code_answers, answer)
    /\ UNCHANGED outer
    /\ UNCHANGED <<request, middleware, code_calls, responses, hook_calls,
                   hook_done>>
    /\ IF answer.tag = "Err"
       THEN /\ finish(Panic("invalid address address."))
            /\ UNCHANGED <<deployed_bytecode, verifier, compiler_inputs,
                           compiler_input, metadatas, calls>>
       ELSE IF ~answer.value.some
       THEN /\ finish(Panic("no deployed bytecode for this address."))
            /\ UNCHANGED <<deployed_bytecode, verifier, compiler_inputs,
                           compiler_input, metadatas, calls>>
       ELSE IF DisplayBytes_from_str(answer.value.val).tag = "Err"
       THEN /\ finish(Panic("invalide bytecode"))
            /\ UNCHANGED <<deployed_bytecode, verifier, compiler_inputs,
                           compiler_input, metadatas, calls>>
       ELSE /\ deployed_bytecode' =
                   Some(DisplayBytes_from_str(answer.value.val).value)
            /\ \E made \in new_answers_now(
                            new_args(DisplayBytes_from_str(answer.value.val).value)) :
                  IF made.tag = "Err"
                  THEN /\ finish(made)
                       /\ UNCHANGED <<verifier, compiler_inputs,
                                      compiler_input, metadatas, calls>>
                  ELSE /\ verifier' = Some(made.value)
                       /\ search_step(None, <<>>, from(request.content))

\* is_no_match that also continues after a Success
is_no_match_or_ok(answer) == answer = NoMatchingContracts \/ answer.tag = "Ok"

\* is_no_match that continues after every error
is_any_err(answer) == answer.tag = "Err"

\* line 101: if let Err(Error::NoMatchingContracts) = result
is_no_match(answer) == answer = NoMatchingContracts

\* lines 98-111 and back to 95-98: verifier.verify answers and is classified
verify_return(answer) ==
    /\ pc = "await_verify"
    /\ responses' = Append(responses, answer)
    /\ UNCHANGED outer
    /\ UNCHANGED <<request, middleware, code_calls, code_answers,
                   deployed_bytecode, verifier, hook_done>>
    /\ IF is_no_match(answer)
       THEN /\ search_step(compiler_input, metadatas, compiler_inputs)
            /\ UNCHANGED hook_calls
       ELSE IF answer.tag = "Err"
       THEN /\ finish(answer)
            /\ UNCHANGED <<compiler_inputs, compiler_input, metadatas, calls,
                           hook_calls>>
       ELSE IF middleware
       THEN /\ hook_calls' = Append(hook_calls, answer.value)
            /\ pc' = "await_hook"
            /\ UNCHANGED <<compiler_inputs, compiler_input, metadatas, calls,
                           result>>
       ELSE /\ finish(Ok(answer.value))
            /\ UNCHANGED <<compiler_inputs, compiler_input, metadatas, calls,
                           hook_calls>>

\* middleware_return that reports a failed middleware call as an error
middleware_return_veto(outcome) ==
    /\ pc = "await_hook"
    /\ hook_done' = Append(hook_done, outcome)
    /\ UNCHANGED outer
    /\ finish(IF outcome = "failed" THEN Err("Internal", "e1")
              ELSE Ok(responses[Len(responses)].value))
    /\ UNCHANGED <<request, middleware, code_calls, code_answers,
                   deployed_bytecode, verifier, compiler_inputs,
                   compiler_input, metadatas, calls, responses, hook_calls>>

\* lines 109-111: middleware.call(&success) completes, verify returns
\* Ok(success) with the success it holds
middleware_return(outcome) ==
    /\ pc = "await_hook"
    /\ hook_done' = Append(hook_done, outcome)
    /\ UNCHANGED outer
    /\ finish(Ok(responses[Len(responses)].value))
    /\ UNCHANGED <<request, middleware, code_calls, code_answers,
                   deployed_bytecode, verifier, compiler_inputs,
                   compiler_input, metadatas, calls, responses, hook_calls>>

----------------------------------------------------------------------------
(* HTTP handlers: handlers/solidity_multi_part.rs and                      *)
(* handlers/solidity_standard_json.rs                                      *)

\* char::to_lowercase on the characters an address can hold
LowerChar(c) ==
    CASE c = "A" -> "a"
      [] c = "B" -> "b"
      [] c = "X" -> "x"
      [] OTHER -> c

\* String::to_lowercase
to_lowercase(s) == [i \in 1..Len(s) |-> LowerChar(s[i])]

\* Version::from_str on the version strings a request can carry
Version_from_str(s) ==
    CASE s = "v0.5.17+commit.d19bba13" -> Ok(<<0, 5, 17>>)
      [] s = "v0.7.6+commit.7338295f" -> Ok(<<0, 7, 6>>)
      [] s = "v0.8.15+commit.e14f2714" -> Ok(<<0, 8, 15>>)
      [] OTHER -> [tag |-> "Err"]

\* EvmVersion::from_str
EvmVersion_from_str(s) ==
    CASE s = "london" -> Ok("london")
      [] OTHER -> [tag |-> "Err"]

\* serde_json::from_str::<CompilerInput>
serde_json_from_str(s) ==
    CASE s = "{\"language\":\"Solidity\"}" -> Ok([language |-> "Solidity"])
      [] OTHER -> [tag |-> "Err"]

\* the handlers' deserialized requests
RawAddresses == {<<"0", "x", "A", "b">>, <<"0", "x", "a", "b">>}
RawBytecodes == {None, Some("0x6001"), Some("zz")}
RawVersions ==
    {"v0.5.17+commit.d19bba13", "v0.7.6+commit.7338295f",
     "v0.8.15+commit.e14f2714", "latest"}
RawEvmVersions == {"default", "london", "bogus"}
RawInputs == {"{\"language\":\"Solidity\"}", "not json"}

MultiPartFiles ==
    [sources : SourceMaps, evm_version : RawEvmVersions,
     optimization_runs : OptimizationRuns, contract_libraries : {None}]

RawRequests ==
    [handler : {"multi_part"}, contract_address : RawAddresses,
     creation_bytecode : RawBytecodes, compiler_version : RawVersions,
     content : MultiPartFiles]
    \cup
    [handler : {"standard_json"}, contract_address : RawAddresses,
     creation_bytecode : RawBytecodes, compiler_version : RawVersions,
     content : [input : RawInputs]]

\* actix responses: Ok(Json(..)), ErrorBadRequest, ErrorInternalServerError
HttpOk(body) == [http |-> 200, body |-> body]
HttpBadRequest(e) == [http |-> 400, error |-> e]
HttpInternalServerError(e) == [http |-> 500, error |-> e]

\* VerificationResponse::ok and VerificationResponse::err
VerificationResponse_ok(success) == [status |-> "ok", result |-> Some(success)]
VerificationResponse_err(err) == [status |-> "failed", message |-> err]

\* the request has not been converted yet
NoRequest == [unset |-> TRUE]

\* multi-part: impl TryFrom<MultiPartFiles> for MultiFileContent
try_from_MultiPartFiles(value) ==
    IF value.evm_version # "default"
          /\ EvmVersion_from_str(value.evm_version).tag = "Err"
    THEN [tag |-> "Err", response |-> HttpBadRequest("Invalid evm version")]
    ELSE Ok([sources |-> value.sources,
             evm_version |->
                 IF value.evm_version # "default"
                 THEN Some(EvmVersion_from_str(value.evm_version).value)
                 ELSE None,
             optimization_runs |-> value.optimization_runs,
             contract_libraries |-> value.contract_libraries])

\* Option<String> -> Option<Bytes> through DisplayBytes::from_str
creation_bytecode_of(value) ==
    IF ~value.creation_bytecode.some
    THEN Ok(None)
    ELSE IF DisplayBytes_from_str(value.creation_bytecode.val).tag = "Err"
    THEN [tag |-> "Err"]
    ELSE Ok(Some(DisplayBytes_from_str(value.creation_bytecode.val).value))

\* multi-part: impl TryFrom<VerificationRequest> for
\* solidity::multi_part::VerificationRequest
try_from_multi_part(value) ==
    IF creation_bytecode_of(value).tag = "Err"
    THEN [tag |-> "Err",
          response |-> HttpBadRequest("Invalid creation bytecode")]
    ELSE IF Version_from_str(value.compiler_version).tag = "Err"
    THEN [tag |-> "Err",
          response |-> HttpBadRequest("Invalid compiler version")]
    ELSE IF try_from_MultiPartFiles(value.content).tag = "Err"
    THEN try_from_MultiPartFiles(value.content)
    ELSE Ok([contract_address |-> value.contract_address,
             creation_bytecode |-> creation_bytecode_of(value).value,
             compiler_version |-> Version_from_str(value.compiler_version).value,
             content |-> try_from_MultiPartFiles(value.content).value])

\* standard-json: enum ParseError
ParseError(kind, msg) == [tag |-> "Err", kind |-> kind, payload |-> msg]

\* standard-json: impl TryFrom<VerificationRequest> for
\* solidity::standard_json::VerificationRequest
try_from_standard_json(value) ==
    IF creation_bytecode_of(value).tag = "Err"
    THEN ParseError("BadRequest", "Invalid creation bytecode")
    ELSE IF Version_from_str(value.compiler_version).tag = "Err"
    THEN ParseError("BadRequest", "Invalid compiler version")
    ELSE IF serde_json_from_str(value.content.input).tag = "Err"
    THEN ParseError("InvalidContent", "content is not valid standard json")
    ELSE Ok([contract_address |-> value.contract_address,
             creation_bytecode |-> creation_bytecode_of(value).value,
             compiler_version |-> Version_from_str(value.compiler_version).value,
             content |->
                 [input |-> serde_json_from_str(value.content.input).value]])

\* standard-json, lines 26-35: what a ParseError is answered with
parse_error_response(err) ==
    IF err.kind = "InvalidContent"
    THEN HttpBadRequest(err)
    ELSE HttpOk(VerificationResponse_err(err))

\* multi-part, lines 62-71: the match on the orchestrator's error
error_response_multi_part(err) ==
    CASE err.kind \in {"Compilation", "NoMatchingContracts",
                       "CompilerVersionMismatch"} ->
            HttpOk(VerificationResponse_err(err))
      [] err.kind \in {"Initialization", "VersionNotFound"} ->
            HttpBadRequest(err)
      [] err.kind = "Internal" -> HttpInternalServerError(err)

\* error_response_standard_json that answers Initialization like a failed
\* verification
error_response_standard_json_init(err) ==
    CASE err.kind \in {"Compilation", "NoMatchingContracts",
                       "CompilerVersionMismatch", "Initialization"} ->
            HttpOk(VerificationResponse_err(err))
      [] err.kind \in {"VersionNotFound"} -> HttpBadRequest(err)
      [] err.kind = "Internal" -> HttpInternalServerError(err)

\* standard-json, lines 64-73: the match on the orchestrator's error
error_response_standard_json(err) ==
    CASE err.kind \in {"Compilation", "NoMatchingContracts",
                       "CompilerVersionMismatch"} ->
            HttpOk(VerificationResponse_err(err))
      [] err.kind \in {"Initialization", "VersionNotFound"} ->
            HttpBadRequest(err)
      [] err.kind = "Internal" -> HttpInternalServerError(err)

\* what solidity::standard_json::verify can return
StandardJsonAnswers(req) ==
    IF req.compiler_version \in Catalog
    THEN {Ok(Success(req.content.input, n)) : n \in ContractNames}
         \cup {NoMatchingContracts} \cup HardErrors
    ELSE {Err("VersionNotFound", p) : p \in ErrorPayloads}

orchestrator_vars ==
    <<middleware, code_calls, code_answers, deployed_bytecode, verifier,
      compiler_inputs, compiler_input, metadatas, calls, responses,
      hook_calls, hook_done>>

\* multi-part line 32 / standard-json lines 26-37: params.into_inner()
\* .try_into(), then the call of the orchestrator
http_parse ==
    /\ hpc = "parse"
    /\ LET parsed == IF raw.handler = "multi_part"
                     THEN try_from_multi_part(raw)
                     ELSE try_from_standard_json(raw)
       IN  IF parsed.tag = "Err"
           THEN /\ response' = IF raw.handler = "multi_part"
                               THEN parsed.response
                               ELSE parse_error_response(parsed)
                /\ hpc' = "responded"
                /\ UNCHANGED <<request, pc>>
           ELSE /\ request' = parsed.value
                /\ pc' = IF raw.handler = "multi_part"
                         THEN "start" ELSE "await_standard_json"
                /\ hpc' = "verifying"
                /\ UNCHANGED response
    /\ UNCHANGED <<raw, db_records, result, orchestrator_vars, dropped,
                   first_run, other>>

\* standard-json line 37: solidity::standard_json::verify(..).await answers
standard_json_verify_return(answer) ==
    /\ pc = "await_standard_json"
    /\ result' = answer
    /\ pc' = "done"
    /\ UNCHANGED <<request, outer, orchestrator_vars>>

\* multi-part lines 33-46 and 62-71 / standard-json lines 39-48 and 64-73:
\* the orchestrator has returned; an error is answered at once, a success
\* first opens the database; a panic unwinds the handler
http_result ==
    /\ hpc = "verifying"
    /\ pc = "done"
    /\ IF result.tag = "Panic"
       THEN hpc' = "aborted" /\ response' = response
       ELSE IF result.tag = "Ok"
       THEN hpc' = "await_db_new" /\ response' = response
       ELSE /\ hpc' = "responded"
            /\ response' = IF raw.handler = "multi_part"
                           THEN error_response_multi_part(result)
                           ELSE error_response_standard_json(result)
    /\ UNCHANGED <<request, pc, result, raw, db_records, orchestrator_vars,
                   dropped, first_run, other>>

\* multi-part lines 46-55 / standard-json lines 48-57: DB::new() is ready,
\* the record is handed to add_contract_verify_response
db_new_return ==
    /\ hpc = "await_db_new"
    /\ db_records' =
          Append(db_records,
                 [contract_address |-> to_lowercase(request.contract_address),
                  result |-> VerificationResponse_ok(result.value).result.val])
    /\ hpc' = "await_db_add"
    /\ UNCHANGED <<request, pc, result, raw, response, orchestrator_vars,
                   dropped, first_run, other>>

\* multi-part line 59 / standard-json line 61: return Ok(Json(response))
db_add_return ==
    /\ hpc = "await_db_add"
    /\ response' = HttpOk(VerificationResponse_ok(result.value))
    /\ hpc' = "responded"
    /\ UNCHANGED <<request, pc, result, raw, db_records, orchestrator_vars,
                   dropped, first_run, other>>

Init ==
    /\ request \in VerificationRequests
    /\ middleware \in BOOLEAN
    /\ pc = "start"
    /\ code_calls = <<>>
    /\ code_answers = <<>>
    /\ deployed_bytecode = None
    /\ verifier = None
    /\ compiler_inputs = <<>>
    /\ compiler_input = None
    /\ metadatas = <<>>
    /\ calls = <<>>
    /\ responses = <<>>
    /\ hook_calls = <<>>
    /\ hook_done = <<>>
    /\ result = Pending
    /\ raw = NoRaw
    /\ hpc = "none"
    /\ response = Pending
    /\ db_records = <<>>
    /\ dropped = <<>>
    /\ first_run = NoRun
    /\ other = NoRun

Next ==
    \/ verify_start
    \/ /\ pc = "await_code"
       /\ \E answer \in code_answers_now(code_calls[Len(code_calls)]) :
             get_Code_return(answer)
    \/ /\ pc = "await_verify"
       /\ \E answer \in verify_answers_now(calls[Len(calls)]) :
             verify_return(answer)
    \/ /\ pc = "await_hook"
       /\ \E outcome \in hook_outcomes_now(hook_calls[Len(hook_calls)]) :
             middleware_return(outcome)

InitHttp ==
    /\ raw \in RawRequests
    /\ hpc = "parse"
    /\ response = Pending
    /\ db_records = <<>>
    /\ dropped = <<>>
    /\ first_run = NoRun
    /\ other = NoRun
    /\ request = NoRequest
    /\ middleware \in BOOLEAN
    /\ pc = "idle"
    /\ code_calls = <<>>
    /\ code_answers = <<>>
    /\ deployed_bytecode = None
    /\ verifier = None
    /\ compiler_inputs = <<>>
    /\ compiler_input = None
    /\ metadatas = <<>>
    /\ calls = <<>>
    /\ responses = <<>>
    /\ hook_calls = <<>>
    /\ hook_done = <<>>
    /\ result = Pending

NextHttp ==
    \/ http_parse
    \/ Next
    \/ /\ pc = "await_standard_json"
       /\ \E answer \in StandardJsonAnswers(request) :
             standard_json_verify_return(answer)
    \/ http_result
    \/ db_new_return
    \/ db_add_return

SpecHttp == InitHttp /\ [][NextHttp]_vars

\* the future of verify is dropped at one of its .await points (lines 79,
\* 98, 109): verify runs no further and returns nothing
cancel ==
    /\ pc \in {"await_code", "await_verify", "await_hook"}
    /\ pc' = "cancelled"
    /\ UNCHANGED <<request, result, orchestrator_vars, outer>>

\* what the call in flight at the time of the drop can still answer
InFlightAnswers ==
    IF Len(code_calls) > Len(code_answers) THEN CodeAnswers
    ELSE IF Len(calls) > Len(responses) THEN VerifyAnswers(calls[Len(calls)])
    ELSE IF Len(hook_calls) > Len(hook_done)
    THEN {[tag |-> "Hook", outcome |-> o] : o \in HookOutcomes}
    ELSE {}

\* the call that was in flight completes after the drop; nobody awaits it
late_answer(answer) ==
    /\ pc = "cancelled"
    /\ dropped = <<>>
    /\ dropped' = <<answer>>
    /\ UNCHANGED <<request, pc, result, orchestrator_vars, raw, hpc, response,
                   db_records, first_run, other>>

NextCancel ==
    \/ Next
    \/ cancel
    \/ /\ pc = "cancelled"
       /\ \E answer \in InFlightAnswers : late_answer(answer)

SpecCancel == Init /\ [][NextCancel]_vars

\* verify is called a second time with the same request and the same
\* collaborators, after the first call has ended
rerun ==
    /\ pc = "done"
    /\ first_run = NoRun
    /\ first_run' =
          [code_calls |-> code_calls,
           code_answers |-> code_answers,
           new_calls |-> IF deployed_bytecode.some
                         THEN <<new_args(deployed_bytecode.val)>> ELSE <<>>,
           new_answers |-> IF ~deployed_bytecode.some THEN <<>>
                           ELSE IF verifier.some THEN <<Ok(verifier.val)>>
                           ELSE <<result>>,
           calls |-> calls,
           responses |-> responses,
           hook_calls |-> hook_calls,
           hook_done |-> hook_done,
           result |-> result]
    /\ pc' = "start"
    /\ code_calls' = <<>>
    /\ code_answers' = <<>>
    /\ deployed_bytecode' = None
    /\ verifier' = None
    /\ compiler_inputs' = <<>>
    /\ compiler_input' = None
    /\ metadatas' = <<>>
    /\ calls' = <<>>
    /\ responses' = <<>>
    /\ hook_calls' = <<>>
    /\ hook_done' = <<>>
    /\ result' = Pending
    /\ UNCHANGED <<request, middleware, raw, hpc, response, db_records,
                   dropped, other>>

NextTwice ==
    \/ Next
    \/ rerun

SpecTwice == Init /\ [][NextTwice]_vars

\* the state one run of verify holds in its future: its argument and locals
local_state ==
    [request |-> request, pc |-> pc, code_calls |-> code_calls,
     code_answers |-> code_answers, deployed_bytecode |-> deployed_bytecode,
     verifier |-> verifier, compiler_inputs |-> compiler_inputs,
     compiler_input |-> compiler_input, metadatas |-> metadatas,
     calls |-> calls, responses |-> responses, hook_calls |-> hook_calls,
     hook_done |-> hook_done, result |-> result]

\* resume that leaves the inner loop's iterator where the run that was
\* executing had it, as with a variant position kept in a static
resume_shared(s) ==
    /\ request' = s.request
    /\ pc' = s.pc
    /\ code_calls' = s.code_calls
    /\ code_answers' = s.code_answers
    /\ deployed_bytecode' = s.deployed_bytecode
    /\ verifier' = s.verifier
    /\ compiler_inputs' = s.compiler_inputs
    /\ compiler_input' = s.compiler_input
    /\ metadatas' = metadatas
    /\ calls' = s.calls
    /\ responses' = s.responses
    /\ hook_calls' = s.hook_calls
    /\ hook_done' = s.hook_done
    /\ result' = s.result

\* a suspended run of verify is polled again: it continues with the state
\* its future held at the .await (lines 79, 98, 109)
resume(s) ==
    /\ request' = s.request
    /\ pc' = s.pc
    /\ code_calls' = s.code_calls
    /\ code_answers' = s.code_answers
    /\ deployed_bytecode' = s.deployed_bytecode
    /\ verifier' = s.verifier
    /\ compiler_inputs' = s.compiler_inputs
    /\ compiler_input' = s.compiler_input
    /\ metadatas' = s.metadatas
    /\ calls' = s.calls
    /\ responses' = s.responses
    /\ hook_calls' = s.hook_calls
    /\ hook_done' = s.hook_done
    /\ result' = s.result

\* the executor leaves the running request at a suspension point and polls
\* the other one
switch ==
    /\ other # NoRun
    /\ other' = local_state
    /\ resume(other)
    /\ UNCHANGED <<middleware, raw, hpc, response, db_records, dropped,
                   first_run>>

\* the two requests of the concurrent runs: different addresses, bundles
\* and compiler versions
PairRequests ==
    {[contract_address |-> <<"0", "x", "A", "b">>,
      creation_bytecode |-> None,
      compiler_version |-> <<0, 8, 15>>,
      content |-> [sources |-> [p \in {Path("a", "sol"), Path("b", "yul")} |->
                                   "pragma"],
                   evm_version |-> Some("london"),
                   optimization_runs |-> Some(200),
                   contract_libraries |-> None]],
     [contract_address |-> <<"0", "x", "a", "b">>,
      creation_bytecode |-> None,
      compiler_version |-> <<0, 5, 17>>,
      content |-> [sources |-> [p \in {Path("c", "txt"), Path("d", "yul")} |->
                                   "object"],
                   evm_version |-> None,
                   optimization_runs |-> None,
                   contract_libraries |-> None]]}

\* the state of a run of verify(client, r) that has not been polled yet
fresh_run(r) ==
    [request |-> r, pc |-> "start", code_calls |-> <<>>,
     code_answers |-> <<>>, deployed_bytecode |-> None, verifier |-> None,
     compiler_inputs |-> <<>>, compiler_input |-> None, metadatas |-> <<>>,
     calls |-> <<>>, responses |-> <<>>, hook_calls |-> <<>>,
     hook_done |-> <<>>, result |-> Pending]

InitPair ==
    /\ request \in PairRequests
    /\ other \in {fresh_run(r) : r \in PairRequests}
    /\ middleware \in BOOLEAN
    /\ pc = "start"
    /\ code_calls = <<>>
    /\ code_answers = <<>>
    /\ deployed_bytecode = None
    /\ verifier = None
    /\ compiler_inputs = <<>>
    /\ compiler_input = None
    /\ metadatas = <<>>
    /\ calls = <<>>
    /\ responses = <<>>
    /\ hook_calls = <<>>
    /\ hook_done = <<>>
    /\ result = Pending
    /\ raw = NoRaw
    /\ hpc = "none"
    /\ response = Pending
    /\ db_records = <<>>
    /\ dropped = <<>>
    /\ first_run = NoRun

NextPair ==
    \/ Next
    \/ switch

SpecPair == InitPair /\ [][NextPair]_vars

\* verify when the executor keeps polling it and every awaited call
\* (get_Code, verifier.verify, the middleware) returns
SpecLive == Init /\ [][Next]_vars /\ WF_vars(Next)

Spec == Init /\ [][Next]_vars

----------------------------------------------------------------------------
(* Properties of the orchestrator *)

\* the Candidate Builder's list and the generator's list for the request
Candidates == from(request.content)
Variants == settings_metadata(request.compiler_version)
TotalPairs == Len(Candidates) * Len(Variants)

\* the input of the n-th (candidate, variant) pair in candidate-major,
\* variant-minor order
AttemptInput(n) ==
    LET c == ((n - 1) \div Len(Variants)) + 1
        v == ((n - 1) % Len(Variants)) + 1
    IN  [Candidates[c] EXCEPT !.settings.metadata = Variants[v]]

IsHardError(r) == r.tag = "Err" /\ r.kind # "NoMatchingContracts"

AllNoMatchBefore(k) == \A j \in 1..(k - 1) : responses[j] = NoMatchingContracts

\* C1: if the verify-candidate capability answers NoMatchingContracts to the
\* first k attempts and Match to attempt k+1, it is called exactly k+1 times,
\* no call follows, attempt k+1 carried the candidate and variant of pair
\* k+1, and verify returns the Success that call produced.
C1_MatchShortCircuit ==
    \A n \in 1..Len(responses) :
        (responses[n].tag = "Ok" /\ AllNoMatchBefore(n)) =>
            /\ Len(calls) = n
            /\ Len(responses) = n
            /\ n <= TotalPairs
            /\ calls[n] = AttemptInput(n)
            /\ responses[n].value.compiler_input = AttemptInput(n)
            /\ pc \in {"await_hook", "done"}
            /\ pc = "done" => result = Ok(responses[n].value)

\* two NoMatchingContracts, then Match on the third pair, pairs left over
C1_Witness ==
    /\ pc = "done"
    /\ Len(responses) = 3
    /\ responses[1] = NoMatchingContracts
    /\ responses[2] = NoMatchingContracts
    /\ responses[3].tag = "Ok"
    /\ result = Ok(responses[3].value)
    /\ TotalPairs > 3

\* C2: if attempt j answers an error other than NoMatchingContracts after
\* j-1 NoMatchingContracts answers, exactly j calls are made, verify returns
\* that error value unchanged and the hook is not invoked, also when pairs
\* that could have matched are left untried.
C2_HardStop ==
    \A j \in 1..Len(responses) :
        (IsHardError(responses[j]) /\ AllNoMatchBefore(j)) =>
            /\ Len(calls) = j
            /\ Len(responses) = j
            /\ pc = "done"
            /\ result = responses[j]
            /\ hook_calls = <<>>

\* a Compilation error on the first call while five pairs are left untried
C2_Witness ==
    /\ pc = "done"
    /\ Len(calls) = 1
    /\ responses = <<Err("Compilation", "e2")>>
    /\ result = Err("Compilation", "e2")
    /\ TotalPairs = 6

\* C3: if the search ran and every attempt answered NoMatchingContracts,
\* verify returns NoMatchingContracts after candidates x variants calls and
\* the hook is never invoked.
C3_Exhaustion ==
    (/\ pc = "done"
     /\ verifier.some
     /\ \A n \in 1..Len(responses) : responses[n] = NoMatchingContracts) =>
        /\ result = NoMatchingContracts
        /\ Len(calls) = Len(Candidates) * Len(Variants)
        /\ Len(responses) = Len(calls)
        /\ hook_calls = <<>>

\* two candidates and three variants exhausted in six calls
C3_Witness ==
    /\ pc = "done"
    /\ Len(Candidates) = 2
    /\ Len(Variants) = 3
    /\ Len(calls) = 6
    /\ \A n \in 1..6 : responses[n] = NoMatchingContracts
    /\ result = NoMatchingContracts

\* C4: attempts are issued one at a time in candidate-major, variant-minor
\* order, no pair is attempted twice, and call n+1 is issued only after call
\* n has answered NoMatchingContracts.
C4_AttemptOrder ==
    /\ Len(calls) <= TotalPairs
    /\ \A n \in 1..Len(calls) : calls[n] = AttemptInput(n)
    /\ \A m, n \in 1..Len(calls) : m # n => calls[m] # calls[n]
    /\ Len(responses) <= Len(calls)
    /\ Len(calls) <= Len(responses) + 1
    /\ (pc = "await_verify") <=> (Len(calls) = Len(responses) + 1)
    /\ \A n \in 1..(Len(calls) - 1) : responses[n] = NoMatchingContracts

\* the sixth pair is in flight: candidate 2 (Yul), variant 3 (Bzzr1)
C4_Witness ==
    /\ pc = "await_verify"
    /\ Len(calls) = 6
    /\ calls[4].language = "Yul"
    /\ calls[3].language = "Solidity"
    /\ calls[6].settings.metadata = Some(SettingsMetadataFrom("Bzzr1"))

\* C5: on Match with a middleware registered the hook is invoked exactly once
\* with that Success and completes before verify returns; verify returns the
\* unaltered Success whatever the hook does; the hook is never invoked on a
\* path ending in an error; with no middleware the Success is returned
\* directly.
C5_PostMatchHook ==
    /\ Len(hook_calls) <= 1
    /\ Len(hook_done) <= Len(hook_calls)
    /\ pc = "await_hook" =>
          /\ result = Pending
          /\ middleware
          /\ hook_calls = <<responses[Len(responses)].value>>
          /\ hook_done = <<>>
    /\ hook_done # <<>> => (pc = "done" /\ result.tag = "Ok")
    /\ (pc = "done" /\ result.tag = "Ok") =>
          /\ responses[Len(responses)] = result
          /\ IF middleware
             THEN hook_calls = <<result.value>> /\ Len(hook_done) = 1
             ELSE hook_calls = <<>> /\ hook_done = <<>>
    /\ (pc = "done" /\ result.tag # "Ok") => hook_calls = <<>>

\* a middleware call that failed, after which verify returned the Success
C5_Witness ==
    /\ pc = "done"
    /\ middleware
    /\ hook_done = <<"failed">>
    /\ result.tag = "Ok"
    /\ hook_calls = <<result.value>>

----------------------------------------------------------------------------
(* Properties of the deployed-bytecode resolver *)

\* C6: when the address-code capability answers with no result or with an
\* empty byte sequence, verify returns the error NoDeployedCode as a value,
\* without any verify-candidate call and without running the hook.
C6_NoDeployedCode ==
    (/\ pc = "done"
     /\ code_answers # <<>>
     /\ code_answers[1] \in {Ok(None), Ok(Some(""))}) =>
        /\ result.tag = "Err"
        /\ result.kind = "NoDeployedCode"
        /\ calls = <<>>
        /\ hook_calls = <<>>

\* C7: when the address-code capability itself fails, verify returns the
\* error ResolverUnavailable as a value, never NoMatchingContracts or
\* Internal, never aborting, and makes no verify-candidate call.
C7_ResolverUnavailable ==
    (/\ pc = "done"
     /\ code_answers # <<>>
     /\ code_answers[1].tag = "Err") =>
        /\ result.tag = "Err"
        /\ result.kind = "ResolverUnavailable"
        /\ calls = <<>>

----------------------------------------------------------------------------
(* Properties of the metadata-variant generator *)

\* the version is below 0.6.0 (components below 100)
Below060(v) == v[1] * 10000 + v[2] * 100 + v[3] < 600

\* C8: for a compiler version below 0.6.0 the variant list is exactly the
\* one variant without metadata settings, so each candidate is attempted at
\* most once.
C8_OldCompilerVariants ==
    Below060(request.compiler_version) =>
        /\ settings_metadata(request.compiler_version) = <<None>>
        /\ Len(calls) <= Len(Candidates)
        /\ \A n \in 1..Len(calls) :
              /\ calls[n].settings.metadata = None
              /\ calls[n].language = Candidates[n].language
              /\ calls[n].sources = Candidates[n].sources
        /\ \A m, n \in 1..Len(calls) :
              m # n => calls[m].language # calls[n].language

\* an old compiler, two candidates, each attempted once, search exhausted
C8_Witness ==
    /\ Below060(request.compiler_version)
    /\ pc = "done"
    /\ Len(Candidates) = 2
    /\ Len(calls) = 2
    /\ result = NoMatchingContracts

\* the algorithm list in its fixed order, each an explicit choice
FullVariantList ==
    <<Some([use_literal_content |-> None, bytecode_hash |-> Some("Ipfs")]),
      Some([use_literal_content |-> None, bytecode_hash |-> Some("None")]),
      Some([use_literal_content |-> None, bytecode_hash |-> Some("Bzzr1")])>>

\* C9: for a compiler version at or above 0.6.0 the variant list is
\* [Ipfs, None, Bzzr1] in this order, without duplicates, and every element
\* sets an explicit bytecode-hash choice.
C9_NewCompilerVariants ==
    ~Below060(request.compiler_version) =>
        LET vs == settings_metadata(request.compiler_version)
        IN  /\ vs = FullVariantList
            /\ Len(vs) = 3
            /\ \A i, j \in 1..Len(vs) : i # j => vs[i] # vs[j]
            /\ \A i \in 1..Len(vs) : vs[i].some /\ vs[i].val.bytecode_hash.some
            /\ \A n \in 1..Len(calls) :
                  calls[n].settings.metadata =
                      FullVariantList[((n - 1) % 3) + 1]

\* version 1.5.0: the three variants tried in order on the first candidate
C9_Witness ==
    /\ request.compiler_version = <<1, 5, 0>>
    /\ Len(calls) >= 3
    /\ calls[1].settings.metadata.val.bytecode_hash = Some("Ipfs")
    /\ calls[2].settings.metadata.val.bytecode_hash = Some("None")
    /\ calls[3].settings.metadata.val.bytecode_hash = Some("Bzzr1")

----------------------------------------------------------------------------
(* Properties of the candidate builder *)

YulFiles == {p \in DOMAIN request.content.sources : p.ext = "yul"}
SolidityFiles == (DOMAIN request.content.sources) \ YulFiles

\* candidate c holds exactly the files F of the request, content unchanged
HoldsExactly(c, F) ==
    /\ DOMAIN c.sources = F
    /\ \A p \in F : c.sources[p] = request.content.sources[p]

\* C10: a bundle with files of two dialects yields exactly two candidates,
\* Solidity before Yul, each holding exactly the request's files of its own
\* dialect with unmodified content, disjoint and together covering all
\* files, with identical optimizer and EVM-version settings; a
\* single-dialect bundle yields exactly one candidate.
C10_Partitioning ==
    LET cs == from(request.content)
    IN  /\ (SolidityFiles # {} /\ YulFiles # {}) =>
              /\ Len(cs) = 2
              /\ cs[1].language = "Solidity"
              /\ cs[2].language = "Yul"
              /\ HoldsExactly(cs[1], SolidityFiles)
              /\ HoldsExactly(cs[2], YulFiles)
              /\ DOMAIN cs[1].sources \cap DOMAIN cs[2].sources = {}
              /\ DOMAIN cs[1].sources \cup DOMAIN cs[2].sources
                    = DOMAIN request.content.sources
              /\ cs[1].settings.optimizer = cs[2].settings.optimizer
              /\ cs[1].settings.evm_version = cs[2].settings.evm_version
        /\ (SolidityFiles # {} /\ YulFiles = {}) =>
              /\ Len(cs) = 1
              /\ cs[1].language = "Solidity"
              /\ HoldsExactly(cs[1], SolidityFiles)
        /\ (SolidityFiles = {} /\ YulFiles # {}) =>
              /\ Len(cs) = 1
              /\ cs[1].language = "Yul"
              /\ HoldsExactly(cs[1], YulFiles)
        /\ verifier.some =>
              \A n \in 1..Len(calls) :
                  \E i \in 1..Len(cs) :
                      /\ calls[n].language = cs[i].language
                      /\ calls[n].sources = cs[i].sources

\* a.sol and b.yul submitted; both candidates were attempted
C10_Witness ==
    /\ DOMAIN request.content.sources = {Path("a", "sol"), Path("b", "yul")}
    /\ Len(calls) >= 2
    /\ calls[1].language = "Solidity"
    /\ DOMAIN calls[1].sources = {Path("a", "sol")}
    /\ calls[Len(calls)].language = "Yul"
    /\ DOMAIN calls[Len(calls)].sources = {Path("b", "yul")}


\* C11: when a library mapping is supplied, every candidate's library table
\* holds the full supplied mapping under every source file of the request;
\* when none is supplied the library table is empty.
C11_LibraryTable ==
    LET cs == from(request.content)
        libs == request.content.contract_libraries
        table(x) == x.settings.libraries
        full(x) ==
            IF libs.some
            THEN /\ DOMAIN table(x) = DOMAIN request.content.sources
                 /\ \A p \in DOMAIN request.content.sources :
                       table(x)[p] = libs.val
            ELSE DOMAIN table(x) = {}
    IN  /\ \A i \in 1..Len(cs) : full(cs[i])
        /\ \A n \in 1..Len(calls) : full(calls[n])

\* two files and the mapping Lib -> 0xAAAA: the attempted input lists Lib
\* under both files
C11_Witness ==
    /\ request.content.contract_libraries.some
    /\ Cardinality(DOMAIN request.content.sources) = 2
    /\ Len(calls) >= 1
    /\ \A p \in DOMAIN request.content.sources :
          calls[1].settings.libraries[p]["Lib"] = "0xAAAA"

----------------------------------------------------------------------------
(* Per-attempt settings *)

\* the position of attempt n in the candidate and in the variant list
CandidateOf(n) == ((n - 1) \div Len(Variants)) + 1
VariantOf(n) == ((n - 1) % Len(Variants)) + 1

\* C16: the input of the attempt on pair (c, v) has v as its one metadata
\* variant and equals candidate c in every other field (sources, language,
\* optimizer, EVM version, library table, output selection), whatever was
\* attempted before.
C16_PerAttemptSettings ==
    \A n \in 1..Len(calls) :
        LET c == Candidates[CandidateOf(n)]
            a == calls[n]
        IN  /\ a.settings.metadata = Variants[VariantOf(n)]
            /\ a.sources = c.sources
            /\ a.language = c.language
            /\ a.settings.optimizer = c.settings.optimizer
            /\ a.settings.evm_version = c.settings.evm_version
            /\ a.settings.libraries = c.settings.libraries
            /\ a.settings.output_selection = c.settings.output_selection
            /\ DOMAIN a = DOMAIN c
            /\ DOMAIN a.settings = DOMAIN c.settings
            /\ c.settings.metadata = None

\* the second variant on the second candidate, after four other attempts
C16_Witness ==
    /\ Len(calls) >= 5
    /\ calls[5].language = "Yul"
    /\ calls[5].settings.metadata = Some(SettingsMetadataFrom("None"))
    /\ calls[4].settings.metadata = Some(SettingsMetadataFrom("Ipfs"))

\* C20: in every candidate the optimizer is enabled exactly when the request
\* supplies an optimization run count, the run count and the EVM version
\* equal the request's (absent when absent), and all candidates of one
\* request agree on them.
C20_OptimizerSettings ==
    LET cs == from(request.content)
        ok(x) ==
            /\ x.settings.optimizer.enabled
                  = Some(request.content.optimization_runs.some)
            /\ x.settings.optimizer.runs = request.content.optimization_runs
            /\ x.settings.evm_version = request.content.evm_version
    IN  /\ \A i \in 1..Len(cs) : ok(cs[i])
        /\ \A i, j \in 1..Len(cs) :
              /\ cs[i].settings.optimizer = cs[j].settings.optimizer
              /\ cs[i].settings.evm_version = cs[j].settings.evm_version
        /\ \A n \in 1..Len(calls) : ok(calls[n])

\* no run count supplied: both candidates attempted with the optimizer off
C20_Witness ==
    /\ ~request.content.optimization_runs.some
    /\ request.content.evm_version = Some("london")
    /\ Len(calls) >= 4
    /\ calls[1].settings.optimizer = [enabled |-> Some(FALSE), runs |-> None]
    /\ calls[4].settings.optimizer = [enabled |-> Some(FALSE), runs |-> None]
    /\ calls[4].language = "Yul"


----------------------------------------------------------------------------
(* Properties of the HTTP handlers *)

UserErrorKinds == {"Compilation", "NoMatchingContracts", "CompilerVersionMismatch"}
ClientErrorKinds == {"Initialization", "VersionNotFound"}
ServerErrorKinds == {"Internal"}
OrchestratorErrors == HardErrors \cup {NoMatchingContracts}

\* the caller-facing answer the claim gives for an orchestrator error
ExpectedErrorResponse(err) ==
    IF err.kind \in UserErrorKinds
    THEN [http |-> 200, body |-> [status |-> "failed", message |-> err]]
    ELSE IF err.kind \in ClientErrorKinds
    THEN [http |-> 400, error |-> err]
    ELSE [http |-> 500, error |-> err]

\* C12: both handlers answer Compilation, NoMatchingContracts and
\* CompilerVersionMismatch with a normal verification response carrying the
\* error, Initialization and VersionNotFound with a bad-request error and
\* Internal with a server error; the classes are disjoint, cover every error
\* kind, and the two handlers classify identically.
C12_ErrorClassification ==
    /\ \A err \in OrchestratorErrors :
          /\ error_response_multi_part(err) = ExpectedErrorResponse(err)
          /\ error_response_standard_json(err) = ExpectedErrorResponse(err)
          /\ Cardinality({K \in {UserErrorKinds, ClientErrorKinds,
                                 ServerErrorKinds} : err.kind \in K}) = 1
    /\ (hpc = "responded" /\ result.tag = "Err") =>
          response = ExpectedErrorResponse(result)

\* the standard-json handler answering an Initialization error with 400
C12_Witness ==
    /\ hpc = "responded"
    /\ raw.handler = "standard_json"
    /\ result.tag = "Err"
    /\ result.kind = "Initialization"
    /\ response.http = 400

\* C13: every address handed to an external collaborator (the address-code
\* capability, the outcome record) is the lower-cased submitted address.
C13_AddressLowerCased ==
    /\ \A i \in 1..Len(code_calls) :
          code_calls[i] = to_lowercase(raw.contract_address)
    /\ \A i \in 1..Len(db_records) :
          db_records[i].contract_address = to_lowercase(raw.contract_address)

\* the request's version string or creation bytecode does not parse
Unparsable(r) ==
    \/ Version_from_str(r.compiler_version).tag = "Err"
    \/ r.creation_bytecode.some
          /\ DisplayBytes_from_str(r.creation_bytecode.val).tag = "Err"

\* C14: in both handlers a request whose compiler version does not parse or
\* whose creation bytecode is not hex is rejected as a client error before
\* the orchestrator runs: no resolver call, no verify-candidate call, no
\* outcome recorded.
C14_UnparsableRejected ==
    (Unparsable(raw) /\ hpc # "parse") =>
        /\ hpc = "responded"
        /\ response.http = 400
        /\ pc = "idle"
        /\ code_calls = <<>>
        /\ calls = <<>>
        /\ db_records = <<>>

\* the multi-part request is well-formed and names a version the catalog
\* does not hold
ParsesOutsideCatalog(r) ==
    /\ r.handler = "multi_part"
    /\ try_from_multi_part(r).tag = "Ok"
    /\ try_from_multi_part(r).value.compiler_version \notin Catalog

\* C15: a compiler version that parses but is not in the catalog yields
\* VersionNotFound at the boundary, before the resolver's network call and
\* before any verify-candidate call, whatever the network would answer.
C15_CatalogCheckFirst ==
    ParsesOutsideCatalog(raw) =>
        /\ code_calls = <<>>
        /\ calls = <<>>
        /\ hpc \in {"responded", "aborted"} =>
              /\ response.http = 400
              /\ response.error.kind = "VersionNotFound"


----------------------------------------------------------------------------
(* Cancellation *)

\* C19: verify returns a Success only if the most recent verify-candidate
\* call answered Match and every earlier call answered
\* NoMatchingContracts; a request abandoned at a suspension point returns
\* no Success, and the answer of the call then in flight is discarded.
C19_NoPartialSuccess ==
    /\ result.tag = "Ok" =>
          /\ pc = "done"
          /\ Len(responses) >= 1
          /\ Len(responses) = Len(calls)
          /\ responses[Len(responses)] = result
          /\ AllNoMatchBefore(Len(responses))
    /\ pc = "cancelled" => result = Pending
    /\ dropped # <<>> =>
          /\ pc = "cancelled"
          /\ result = Pending
          /\ Len(code_answers) + Len(responses) + Len(hook_done) + 1
                = Len(code_calls) + Len(calls) + Len(hook_calls)

\* dropped during the second verify-candidate call, which then answered
\* Match: nothing is returned
C19_Witness ==
    /\ pc = "cancelled"
    /\ Len(calls) = 2
    /\ Len(responses) = 1
    /\ Len(dropped) = 1
    /\ dropped[1].tag = "Ok"
    /\ result = Pending


----------------------------------------------------------------------------
(* Determinism *)

IsPrefix(s, t) == Len(s) <= Len(t) /\ \A i \in 1..Len(s) : s[i] = t[i]

----------------------------------------------------------------------------
(* Concurrent requests *)

\* the state s of a run is one that the run reaches alone: its calls are the
\* pairs of its own request in order, each issued after a
\* NoMatchingContracts answer, and its result is the one its own answers
\* give
SoloConsistent(s) ==
    LET cs == from(s.request.content)
        vs == settings_metadata(s.request.compiler_version)
        input(n) ==
            [cs[((n - 1) \div Len(vs)) + 1] EXCEPT
                !.settings.metadata = vs[((n - 1) % Len(vs)) + 1]]
        last == s.responses[Len(s.responses)]
    IN  /\ IsPrefix(s.code_calls, <<s.request.contract_address>>)
        /\ Len(s.calls) <= Len(cs) * Len(vs)
        /\ \A n \in 1..Len(s.calls) : s.calls[n] = input(n)
        /\ Len(s.responses) <= Len(s.calls)
        /\ Len(s.calls) <= Len(s.responses) + 1
        /\ \A n \in 1..(Len(s.calls) - 1) :
              s.responses[n] = NoMatchingContracts
        /\ s.pc # "done" => s.result = Pending
        /\ (s.pc = "done" /\ ~s.verifier.some) =>
              /\ s.calls = <<>>
              /\ s.result.tag \in {"Panic", "Err"}
        /\ (s.pc = "done" /\ s.verifier.some) =>
              IF s.responses # <<>> /\ last # NoMatchingContracts
              THEN /\ s.result = last
                   /\ Len(s.responses) = Len(s.calls)
                   /\ last.tag = "Ok" =>
                         last.value.compiler_input = input(Len(s.calls))
              ELSE /\ s.result = NoMatchingContracts
                   /\ Len(s.calls) = Len(cs) * Len(vs)

\* C18: with the steps of two requests interleaved at the suspension points,
\* each request's calls and outcome are those of a run on its own; a step of
\* one request leaves the other's state untouched, a suspended request
\* resumes with exactly the state it was suspended with, and the hook
\* reference stays as it is.
C18_RequestIndependence ==
    /\ [](SoloConsistent(local_state) /\ SoloConsistent(other))
    /\ [][/\ middleware' = middleware
          /\ other' # other => (other' = local_state /\ local_state' = other)
         ]_vars

\* both requests finished after interleaved attempts: the first matched on
\* its fifth pair, the second exhausted its two pairs
C18_Witness ==
    /\ pc = "done"
    /\ other.pc = "done"
    /\ request # other.request
    /\ {Len(calls), Len(other.calls)} = {5, 2}
    /\ {result.tag, other.result.tag} = {"Ok", "Err"}


----------------------------------------------------------------------------
(* A request without files *)

\* the request has no file of either dialect: a file is Yul by its
\* extension and Solidity otherwise, so this is the empty source map
NoDialectFile == YulFiles = {} /\ SolidityFiles = {}

\* C21: a request whose source map holds no file yields zero candidates;
\* verify, once the deployed bytecode is resolved and the verifier built,
\* makes no verifier.verify call, does not call the hook and returns
\* NoMatchingContracts.
C21_NoFiles ==
    NoDialectFile =>
        /\ Candidates = <<>>
        /\ compiler_inputs = <<>>
        /\ calls = <<>>
        /\ hook_calls = <<>>
        /\ pc \notin {"await_verify", "await_hook"}
        /\ (pc = "done" /\ verifier.some) => result = NoMatchingContracts

\* the empty source map, the bytecode resolved with one get_Code call and
\* the verifier built: the run ended with NoMatchingContracts
C21_Witness ==
    /\ DOMAIN request.content.sources = {}
    /\ Len(code_calls) = 1
    /\ deployed_bytecode.some
    /\ verifier.some
    /\ pc = "done"
    /\ calls = <<>>
    /\ result = NoMatchingContracts


----------------------------------------------------------------------------
(* One library table for the whole request *)

\* the library table of a candidate or of an attempted input
LibraryTableOf(x) == x.settings.libraries

\* C22: the library table is built once from all files of the request
\* before the split by dialect: the tables of all candidates and of all
\* attempted inputs of one request are equal, and when libraries are
\* supplied a candidate's table has an entry for every file of the request,
\* the files of the other dialect's candidate included, which its own
\* sources do not hold.
C22_SharedLibraryTable ==
    /\ \A i, j \in 1..Len(compiler_inputs) :
          LibraryTableOf(compiler_inputs[i]) = LibraryTableOf(compiler_inputs[j])
    /\ \A n, m \in 1..Len(calls) :
          LibraryTableOf(calls[n]) = LibraryTableOf(calls[m])
    /\ request.content.contract_libraries.some =>
          \A i \in 1..Len(compiler_inputs) :
             /\ YulFiles \cup SolidityFiles
                    \subseteq DOMAIN LibraryTableOf(compiler_inputs[i])
             /\ compiler_inputs[i].language = "Solidity" =>
                   YulFiles \cap DOMAIN compiler_inputs[i].sources = {}
             /\ compiler_inputs[i].language = "Yul" =>
                   SolidityFiles \cap DOMAIN compiler_inputs[i].sources = {}

\* a.sol and b.yul with libraries: the Yul candidate was attempted after the
\* Solidity one, and its table lists a.sol, which its sources do not hold
C22_Witness ==
    /\ request.content.contract_libraries.some
    /\ DOMAIN request.content.sources = {Path("a", "sol"), Path("b", "yul")}
    /\ Len(calls) >= 2
    /\ calls[1].language = "Solidity"
    /\ calls[Len(calls)].language = "Yul"
    /\ Path("a", "sol") \in DOMAIN LibraryTableOf(calls[Len(calls)])
    /\ Path("a", "sol") \notin DOMAIN calls[Len(calls)].sources
    /\ LibraryTableOf(calls[1]) = LibraryTableOf(calls[Len(calls)])


----------------------------------------------------------------------------
(* Termination *)

\* C23: provided every awaited call returns, verify eventually returns a
\* Success or an Error for every request, after at most (number of
\* candidates) x (number of variants) verifier.verify calls, with at most 2
\* candidates and at most 3 variants.
C23_Termination ==
    /\ <>(pc = "done" /\ result.tag \in {"Ok", "Err"})
    /\ [](/\ Len(Candidates) <= 2
          /\ Len(Variants) <= 3
          /\ Len(calls) <= Len(Candidates) * Len(Variants))

====
